---------------------------- MODULE Spec2Model ----------------------------
(***************************************************************************)
(* Model of the ingestion service: the per-message dispatch loop, the      *)
(* batch buffer and its flushes, the in-flight upsert set, the retry       *)
(* executor and the SIGINT shutdown sequence; and, each under its own      *)
(* specification, the plugin loading loops, fingerprint(), the example     *)
(* sensor normalizer and the example SENSOR_READING upserter.              *)
(*                                                                         *)
(* One action is one event-loop task (a delivered message, a timer that    *)
(* fires, an I/O promise that settles, a signal) together with the         *)
(* synchronous code and the promise continuations it runs up to the next   *)
(* await on I/O or on a timer.                                             *)
(***************************************************************************)
EXTENDS Integers, Sequences, FiniteSets, TLC

(***************************************************************************)
(* Bounds of the model.                                                    *)
(***************************************************************************)
MaxMsgs == 2        \* messages delivered by the consumer
MaxEvents == 2      \* candidate events a normalizer returns for one message
MaxFlushes == 1     \* timer-triggered flushes that capture a non-empty buffer
MaxFaults == 4      \* I/O operations (sendBatch, upsert, DLQ send) that reject
MaxRetries == 4     \* largest retry budget given to retry() on its own
MaxPlugins == 3     \* entries of the configured plugin map
MaxFields == 2      \* fields of a map given to fingerprint()
MaxUpserts == 3     \* applications of the example upserter, one after the other

(***************************************************************************)
(* Program constants.                                                      *)
(***************************************************************************)
DefaultRetries == 3 \* retry.ts: const { retries = 3, baseMs = 200 } = opts
HandlerRetries == 2 \* index: retry(handle, { retries: 2 })

VARIABLES
  msgs,               \* the messages delivered so far, in arrival order
  task,               \* per delivered message: the state of retry(handle).catch(...)
  batch,              \* const batch: the Batch Buffer
  pushCount,          \* number of batch.push calls so far (identifies a pushed entry)
  flushes,            \* the flushBatch() calls that captured a non-empty buffer
  timerActive,        \* flushTimer is scheduled (not yet cleared)
  inFlightUpserts,    \* const inFlightUpserts: the In-Flight Set
  metrics,            \* the prom-client counters and gauges
  dlqTopic,           \* payloads the dead-letter topic received
  logged,             \* logger.error / logger.info records
  sd,                 \* the SIGINT handler: its position and what it awaits
  conn,               \* consumer running, producer connected, driver open
  exitCode,           \* -1 while the process runs, else the exit status
  rt,                 \* a retry() call on its own (the retry executor)
  normalizers,        \* const normalizers: Record<string, INormalizer>, tool -> module
  upserters,          \* const upserters: Record<string, IUpserter>, event_type -> module
  ld,                 \* the plugin loading loops: the plugin map and how far they got
  fp,                 \* fingerprint() applied to two field maps
  db,                 \* the graph the example upserter writes to
  up,                 \* the example upserter: the event it applies and its position
  nz,                 \* a sensor report on the raw topic and what handle() made of it
  cu                  \* two invocations of the example upserter running concurrently

pipeVars == <<msgs, task, batch, pushCount, flushes, timerActive,
              inFlightUpserts, metrics, dlqTopic, logged, sd, conn, exitCode>>
\* What the dispatch loop, the flushes and the shutdown sequence never write.
sideVars == <<normalizers, upserters, ld, fp, db, up, nz, cu>>
vars == <<msgs, task, batch, pushCount, flushes, timerActive,
          inFlightUpserts, metrics, dlqTopic, logged, sd, conn, exitCode, rt,
          sideVars>>

Topics == {"raw", "domain"}
ErrorNames == {"SyntaxError", "Error", "TypeError", "UpsertError"}

(***************************************************************************)
(* The retry executor (core/util/retry.ts).                                *)
(***************************************************************************)

\* catch (err) { attempt += 1; if (attempt > retries) throw err; ... }
\* `attempt` is the counter before the increment.
RetryGivesUpOffByOne(attempt, retries) == attempt + 1 >= retries

RetryGivesUp(attempt, retries) == attempt + 1 > retries


(***************************************************************************)
(* retry(fn, {retries}) on its own.  The operation fn is given by `plan`:  *)
(* the number of the call on which it first succeeds, 0 when it fails on   *)
(* every call.  Call number i raises the error object i or returns the     *)
(* value i, so that "the error of the last invocation" and "the result of  *)
(* call k" can be told apart from those of other calls.                    *)
(***************************************************************************)
RtIdle == [pc |-> "idle", retries |-> 0, plan |-> 0, attempt |-> 0,
           calls |-> 0, err |-> 0, result |-> 0]

\* const { retries = 3 } = opts; let attempt = 0; while (true) { try { return await fn();
RetryCall(retries, plan) ==
  [pc |-> "calling", retries |-> retries, plan |-> plan, attempt |-> 0,
   calls |-> 1, err |-> 0, result |-> 0]

\* try { return await fn(); }: what retry() does when call number r.calls fulfils.
RetryKeepsCalling(r) == [r EXCEPT !.pc = "sleeping"]

RetryReturns(r) == [r EXCEPT !.pc = "resolved", !.result = r.calls]

\* fn() of the current iteration fulfils
RetryFnFulfils ==
  /\ rt.pc = "calling"
  /\ rt.plan = rt.calls
  /\ rt' = RetryReturns(rt)
  /\ UNCHANGED <<pipeVars, sideVars>>

\* fn() of the current iteration rejects: the catch block
RetryFnRejects ==
  /\ rt.pc = "calling"
  /\ rt.plan # rt.calls
  /\ rt' = IF RetryGivesUp(rt.attempt, rt.retries)
             THEN [rt EXCEPT !.pc = "rejected", !.attempt = rt.attempt + 1,
                             !.err = rt.calls]
             ELSE [rt EXCEPT !.pc = "sleeping", !.attempt = rt.attempt + 1]
  /\ UNCHANGED <<pipeVars, sideVars>>

\* await new Promise((resolve) => setTimeout(resolve, delay)); then the next iteration
RetrySleepDone ==
  /\ rt.pc = "sleeping"
  /\ rt' = [rt EXCEPT !.pc = "calling", !.calls = rt.calls + 1]
  /\ UNCHANGED <<pipeVars, sideVars>>

(***************************************************************************)
(* Delivered messages.  A message is its topic and what its bytes make the *)
(* handler do: `kind` says where handle() leaves its straight path, and    *)
(* `events` is, for a raw message whose normalizer returns candidates,     *)
(* whether each candidate satisfies DomainEventSchema.                     *)
(***************************************************************************)
RawKinds == {"null", "badjson", "badschema", "noNormalizer", "normThrows",
             "normNull", "events"}
DomainKinds == {"null", "badjson", "badschema", "noUpserter", "upsert"}
EventSeqs == UNION {[1..n -> BOOLEAN] : n \in 0..MaxEvents}

\* The tool and the event type the loaded plugin map registers a handler for, and
\* keys it registers none for.  RawMessageSchema and DomainEventSchema accept every
\* non-empty string as tool and as event_type; "constructor" is one of the names
\* every plain object inherits from Object.prototype.
RegisteredTool == "sensor_report"
RegisteredEventType == "SENSOR_READING"
UnregisteredKeys == {"nmap", "constructor"}
ObjectPrototypeKeys == {"constructor"}

\* `key` is obj.tool of a raw message and obj.event?.event_type of a domain event.
Messages ==
  {[topic |-> "raw", kind |-> k, key |-> RegisteredTool, events |-> <<>>] :
     k \in RawKinds \ {"events", "noNormalizer"}}
  \cup {[topic |-> "raw", kind |-> "noNormalizer", key |-> u, events |-> <<>>] :
          u \in UnregisteredKeys}
  \cup {[topic |-> "raw", kind |-> "events", key |-> RegisteredTool, events |-> e] :
          e \in EventSeqs}
  \cup {[topic |-> "domain", kind |-> k, key |-> RegisteredEventType, events |-> <<>>] :
          k \in DomainKinds \ {"noUpserter"}}
  \cup {[topic |-> "domain", kind |-> "noUpserter", key |-> u, events |-> <<>>] :
          u \in UnregisteredKeys}

\* registry[key] on a registry created as the plain object {}: the handler stored
\* under the key, else what Object.prototype holds under that name, else undefined.
Lookup(registry, key) ==
  IF key \in DOMAIN registry THEN "own"
  ELSE IF key \in ObjectPrototypeKeys THEN "inherited"
  ELSE "undefined"

\* for (const ev of events) { safeParse(ev); if (!ok) throw ...; batch.push(...) }
\* The number of candidates pushed before the loop ends or throws.
PushedBeforeThrow(evs) ==
  IF \E i \in 1..Len(evs) : ~evs[i]
    THEN (CHOOSE i \in 1..Len(evs) : ~evs[i] /\ \A j \in 1..(i-1) : evs[j]) - 1
    ELSE Len(evs)

\* const events = norm(obj) || [] when norm(obj) is null, and the loop over it.
NullIsIterated == [outcome |-> "throw", err |-> "TypeError", pushes |-> 0]

NullBecomesEmpty == [outcome |-> "ok", err |-> "Error", pushes |-> 0]

\* handle() from its call to its first await, its return or its throw.
HandleSync(m) ==
  IF m.kind = "badjson"                       \* JSON.parse(rawBytes) throws
    THEN [outcome |-> "throw", err |-> "SyntaxError", pushes |-> 0]
  ELSE IF m.kind = "badschema"                \* safeParse(obj) fails
    THEN [outcome |-> "throw", err |-> "Error", pushes |-> 0]
  ELSE IF m.topic = "raw" THEN
    IF Lookup(normalizers, m.key) = "undefined"   \* if (norm) is not taken
      THEN [outcome |-> "ok", err |-> "Error", pushes |-> 0]
    ELSE IF Lookup(normalizers, m.key) = "inherited"
      \* norm is Object: events = Object(obj) is obj, and `for (const ev of events)`
      \* throws a TypeError since obj is not iterable
      THEN [outcome |-> "throw", err |-> "TypeError", pushes |-> 0]
    ELSE IF m.kind = "normThrows"             \* norm(obj) throws
      THEN [outcome |-> "throw", err |-> "Error", pushes |-> 0]
    ELSE IF m.kind = "normNull"               \* norm(obj) || []
      THEN NullBecomesEmpty
    ELSE [outcome |-> IF \E i \in 1..Len(m.events) : ~m.events[i]
                        THEN "throw" ELSE "ok",
          err |-> "Error",
          pushes |-> PushedBeforeThrow(m.events)]
  ELSE
    IF Lookup(upserters, m.key) = "undefined"     \* if (up) is not taken
      THEN [outcome |-> "ok", err |-> "Error", pushes |-> 0]
    ELSE IF Lookup(upserters, m.key) = "inherited"
      \* up is Object: up(obj) is obj, which has no method catch: TypeError
      THEN [outcome |-> "throw", err |-> "TypeError", pushes |-> 0]
      ELSE [outcome |-> "await", err |-> "UpsertError", pushes |-> 0]

\* batch.push({topic: domainTopic, messages: [{key: ev.event?.fingerprint, value: JSON.stringify(ev)}]})
\* for the candidates 1..n of message i, in the normalizer's order.
EntryOfFirstCandidate(id, i, e) == [id |-> id, topic |-> "domain", msg |-> i, ev |-> 1]

Entry(id, i, e) == [id |-> id, topic |-> "domain", msg |-> i, ev |-> e]

PushEventsAtFront(b, i, n) == [e \in 1..n |-> Entry(pushCount + e, i, e)] \o b

PushEvents(b, i, n) == b \o [e \in 1..n |-> Entry(pushCount + e, i, e)]

(***************************************************************************)
(* The task of one delivered message: retry(handle, {retries: 2}).catch(.) *)
(*   pc: "skipped"   message.value was null                                *)
(*       "upserting" handle() awaits the upserter's promise                *)
(*       "backoff"   retry() sleeps before the next attempt                *)
(*       "dlq"       the catch handler awaits producer.send to the DLQ     *)
(*       "done"      an attempt succeeded                                  *)
(*       "failed"    the catch handler finished                            *)
(*   returned: the eachMessage callback of the message has returned        *)
(***************************************************************************)
NewTask ==
  [pc |-> "new", attempt |-> 0, calls |-> 0, errs |-> 0, dlqCalls |-> 0,
   returned |-> FALSE]

\* eachMessage has no await: `if (!message.value) return;`, else retry(handle, ...)
\* makes its first call of handle(), .catch(...) attaches the failure path and the
\* callback returns, wherever that first call left the task t.
CallbackAwaitsTask(t) == t.pc \in {"skipped", "done", "failed"}

CallbackReturns(t) == TRUE

\* The task record of message i: a new one for the message being delivered.
SetTask(i, t) ==
  IF i = Len(task) + 1
    THEN Append(task, [t EXCEPT !.returned = CallbackReturns(t)])
    ELSE [task EXCEPT ![i] = t]

\* The promise up(obj).catch(...) made by call number c of handle() for message i.
Promise(i, c) == <<i, c>>
Pending(p) == p[1] <= Len(task) /\ task[p[1]].pc = "upserting" /\ task[p[1]].calls = p[2]

\* An attempt failed: retry()'s catch block, and when it rethrows the .catch of
\* eachMessage: processingErrors.labels(topic, err.name).inc(); logger.error; producer.send
AttemptFailedTaskWithoutCatch(t) ==
  IF RetryGivesUp(t.attempt, HandlerRetries)
    THEN [t EXCEPT !.pc = "rejected", !.attempt = t.attempt + 1]
    ELSE [t EXCEPT !.pc = "backoff", !.attempt = t.attempt + 1]

AttemptFailedTaskWithoutRetry(t) ==
  [t EXCEPT !.pc = "dlq", !.attempt = t.attempt + 1,
            !.errs = t.errs + 1, !.dlqCalls = t.dlqCalls + 1]

AttemptFailedTask(t) ==
  IF RetryGivesUp(t.attempt, HandlerRetries)
    THEN [t EXCEPT !.pc = "dlq", !.attempt = t.attempt + 1,
                   !.errs = t.errs + 1, !.dlqCalls = t.dlqCalls + 1]
    ELSE [t EXCEPT !.pc = "backoff", !.attempt = t.attempt + 1]

AttemptFailedMetricsEveryAttempt(mt, m, t, err) ==
  [mt EXCEPT !.errors[<<m.topic, err>>] = @ + 1]

AttemptFailedMetrics(mt, m, t, err) ==
  IF RetryGivesUp(t.attempt, HandlerRetries)
    THEN [mt EXCEPT !.errors[<<m.topic, err>>] = @ + 1]
    ELSE mt

AttemptFailedLogged(i, t) ==
  IF RetryGivesUp(t.attempt, HandlerRetries)
    THEN logged \cup {<<"failed permanently, sending to DLQ", i>>}
    ELSE logged

\* One call of handle() for message i by retry(): messagesConsumed.labels(topic).inc(),
\* then the branch of the topic.
Handle(i, m, t) ==
  LET h == HandleSync(m)
      t1 == [t EXCEPT !.calls = t.calls + 1]
      mt1 == [metrics EXCEPT !.consumed[m.topic] = @ + 1]
  IN /\ batch' = PushEvents(batch, i, h.pushes)
     /\ pushCount' = pushCount + h.pushes
     /\ CASE h.outcome = "ok" ->
               /\ task' = SetTask(i, [t1 EXCEPT !.pc = "done"])
               /\ metrics' = mt1
               /\ UNCHANGED <<inFlightUpserts, logged>>
          [] h.outcome = "await" ->   \* inFlightUpserts.add(p); await p
               /\ task' = SetTask(i, [t1 EXCEPT !.pc = "upserting"])
               /\ inFlightUpserts' = inFlightUpserts \cup {Promise(i, t1.calls)}
               /\ metrics' = mt1
               /\ UNCHANGED logged
          [] h.outcome = "throw" ->
               /\ task' = SetTask(i, AttemptFailedTask(t1))
               /\ metrics' = AttemptFailedMetrics(mt1, m, t1, h.err)
               /\ logged' = AttemptFailedLogged(i, t1)
               /\ UNCHANGED inFlightUpserts

Running == exitCode = -1

\* The I/O rejections so far: every one raised an attempt counter or logged a
\* failed dead-letter publish.
RECURSIVE UpsertFaults(_)
UpsertFaults(n) ==
  IF n = 0 THEN 0
  ELSE (IF msgs[n].kind = "upsert" THEN task[n].attempt ELSE 0) + UpsertFaults(n - 1)

RECURSIVE SendFaults(_)
SendFaults(n) == IF n = 0 THEN 0 ELSE flushes[n].attempt + SendFaults(n - 1)

Faults ==
  UpsertFaults(Len(task)) + SendFaults(Len(flushes))
  + Cardinality({l \in logged : l[1] = "DLQ publish failed"})

MayFail == Faults < MaxFaults

\* consumer.run eachMessage: the callback of one delivered message, with the first
\* call of handle(), which retry() makes synchronously.  The consumer calls it for
\* the next message once the callback of the one before has returned.
Deliver(m) ==
  /\ Running
  /\ conn.consumer
  /\ Len(msgs) < MaxMsgs
  /\ \A i \in 1..Len(task) : task[i].returned
  /\ msgs' = Append(msgs, m)
  /\ IF m.kind = "null"                        \* if (!message.value) return;
       THEN /\ task' = SetTask(Len(task) + 1, [NewTask EXCEPT !.pc = "skipped"])
            /\ UNCHANGED <<batch, pushCount, inFlightUpserts, metrics, logged>>
       ELSE Handle(Len(msgs) + 1, m, NewTask)
  /\ UNCHANGED <<flushes, timerActive, dlqTopic, sd, conn, exitCode, rt, sideVars>>

\* retry(): the backoff timer of message i fires and handle() is called again.
RetryAttempt(i) ==
  /\ Running
  /\ task[i].pc = "backoff"
  /\ Handle(i, msgs[i], task[i])
  /\ UNCHANGED <<msgs, flushes, timerActive, dlqTopic, sd, conn, exitCode, rt, sideVars>>

\* The upserter's promise of message i fulfils: inFlightUpserts.delete(p);
\* upsertsSuccess.labels("neo4j").inc(); handle() returns.
UpsertFulfils(i) ==
  /\ Running
  /\ task[i].pc = "upserting"
  /\ conn.driver
  /\ inFlightUpserts' = inFlightUpserts \ {Promise(i, task[i].calls)}
  /\ metrics' = [metrics EXCEPT !.upsertsSuccess = @ + 1]
  /\ task' = [task EXCEPT ![i].pc = "done"]
  /\ UNCHANGED <<msgs, batch, pushCount, flushes, timerActive, dlqTopic,
                 logged, sd, conn, exitCode, rt, sideVars>>

\* The upserter's promise of message i rejects: `await p` throws out of handle(),
\* the statements after it are skipped, and retry() catches the error.
UpsertRejects(i) ==
  /\ Running
  /\ MayFail
  /\ task[i].pc = "upserting"
  /\ task' = [task EXCEPT ![i] = AttemptFailedTask(task[i])]
  /\ metrics' = AttemptFailedMetrics(metrics, msgs[i], task[i], "UpsertError")
  /\ logged' = AttemptFailedLogged(i, task[i])
  /\ UNCHANGED <<msgs, batch, pushCount, flushes, timerActive, inFlightUpserts,
                 dlqTopic, sd, conn, exitCode, rt, sideVars>>

\* producer.send({topic: dlqTopic, messages: [{value: rawBytes}]}) settles.
DlqSendFulfils(i) ==
  /\ Running
  /\ task[i].pc = "dlq"
  /\ conn.producer
  /\ dlqTopic' = Append(dlqTopic, i)
  /\ task' = [task EXCEPT ![i].pc = "failed"]
  /\ UNCHANGED <<msgs, batch, pushCount, flushes, timerActive, inFlightUpserts,
                 metrics, logged, sd, conn, exitCode, rt, sideVars>>

\* try { await producer.send(...) } catch (dlqErr) { logger.error({ dlqErr }, "DLQ publish failed") }
\* when the send of message i rejects.
DlqPublishUncaught(i) ==
  [logged |-> logged, exitCode |-> 1, task |-> [task[i] EXCEPT !.pc = "failed"]]

DlqPublishRetried(i) ==
  [logged |-> logged \cup {<<"DLQ publish failed", i>>}, exitCode |-> exitCode,
   task |-> [task[i] EXCEPT !.dlqCalls = @ + 1]]

DlqPublishFailed(i) ==
  [logged |-> logged \cup {<<"DLQ publish failed", i>>}, exitCode |-> exitCode,
   task |-> [task[i] EXCEPT !.pc = "failed"]]

DlqSendRejects(i) ==
  /\ Running
  /\ MayFail
  /\ task[i].pc = "dlq"
  /\ logged' = DlqPublishFailed(i).logged
  /\ exitCode' = DlqPublishFailed(i).exitCode
  /\ task' = [task EXCEPT ![i] = DlqPublishFailed(i).task]
  /\ UNCHANGED <<msgs, batch, pushCount, flushes, timerActive, inFlightUpserts,
                 metrics, dlqTopic, sd, conn, rt, sideVars>>

(***************************************************************************)
(* The Batch Buffer's flush.  A flush record is one flushBatch() call that *)
(* found the buffer non-empty:                                             *)
(*   by       "timer" or "shutdown": the caller                            *)
(*   sending  the array `sending`                                          *)
(*   attempt  the attempt counter of retry(() => producer.sendBatch(...))  *)
(*   calls    producer.sendBatch calls made so far, each with `sending`    *)
(*   pc       "sending" (a sendBatch call is pending), "backoff", "ok"     *)
(*            (flushBatch resolved) or "failed" (flushBatch rejected)      *)
(*   at       pushCount when the buffer was captured                       *)
(*   sdpc     the position of the SIGINT handler when the flush started    *)
(***************************************************************************)

\* const sending = batch.splice(0, batch.length): what is removed, what is left.
SpliceAllButLast(b) ==
  [sending |-> SubSeq(b, 1, Len(b) - 1), rest |-> SubSeq(b, Len(b), Len(b))]

SliceWithoutRemoving(b) == [sending |-> b, rest |-> b]

Splice(b) == [sending |-> b, rest |-> <<>>]

NewFlush(by, sending) ==
  [by |-> by, sending |-> sending, attempt |-> 0, calls |-> 1, pc |-> "sending",
   at |-> pushCount, sdpc |-> sd.pc]

\* flushBatch() from its call to its first await: the first sendBatch call is made.
flushBatchWithoutEmptyCheck(by) ==
  /\ batch' = Splice(batch).rest
  /\ flushes' = Append(flushes, NewFlush(by, Splice(batch).sending))

flushBatch(by) ==
  IF Len(batch) = 0                            \* if (!batch.length) return;
    THEN UNCHANGED <<batch, flushes>>
    ELSE /\ batch' = Splice(batch).rest
         /\ flushes' = Append(flushes, NewFlush(by, Splice(batch).sending))

TimerFlushes == Cardinality({f \in 1..Len(flushes) : flushes[f].by = "timer"})

\* updateBatchGauge(): batchQueueSize.set(batch.length), with the buffer as
\* flushBatch() left it.  (The gauge of the In-Flight Set's size is not part of
\* the model's state.)
updateBatchGauge(mt, b) == [mt EXCEPT !.batchQueueSize = Len(b)]

\* The setInterval callback: flushBatch().catch(...); updateBatchGauge();
TimerTick ==
  /\ Running
  /\ timerActive
  /\ Len(batch) > 0 => TimerFlushes < MaxFlushes
  /\ flushBatch("timer")
  /\ metrics' = updateBatchGauge(metrics, batch')
  /\ UNCHANGED <<msgs, task, pushCount, timerActive, inFlightUpserts, dlqTopic,
                 logged, sd, conn, exitCode, rt, sideVars>>

\* sending.reduce((acc, tm) => acc + tm.messages.length, 0): one message per entry
ProducedCountOfSends(sending) == 1

ProducedCount(sending) == Len(sending)

\* producer.sendBatch of flush f fulfils: messagesProduced.inc(producedCount)
FlushSendFulfils(f) ==
  /\ Running
  /\ flushes[f].pc = "sending"
  /\ conn.producer
  /\ flushes' = [flushes EXCEPT ![f].pc = "ok"]
  /\ metrics' = [metrics EXCEPT !.produced = @ + ProducedCount(flushes[f].sending)]
  /\ UNCHANGED <<msgs, task, batch, pushCount, timerActive, inFlightUpserts,
                 dlqTopic, logged, sd, conn, exitCode, rt, sideVars>>

\* process.exit(0) in the finally block of the SIGINT handler
ExitStatus == 0

\* The rejection of a timer-triggered flushBatch():
\* .catch((err) => logger.error({ err }, "flushBatch failed"))
TimerFlushUncaught(f) == [logged |-> logged, exitCode |-> 1]

TimerFlushRejected(f) ==
  [logged |-> logged \cup {<<"flushBatch failed", f>>}, exitCode |-> exitCode]

\* producer.sendBatch of flush f rejects: retry()'s catch block; when it rethrows,
\* flushBatch() rejects into the timer's .catch or into the SIGINT handler's
\* try ... finally { process.exit(0) }.
FlushSendRejects(f) ==
  /\ Running
  /\ MayFail
  /\ flushes[f].pc = "sending"
  /\ IF RetryGivesUp(flushes[f].attempt, DefaultRetries)
       THEN /\ flushes' = [flushes EXCEPT ![f].pc = "failed",
                                          ![f].attempt = @ + 1]
            /\ IF flushes[f].by = "timer"
                 THEN /\ logged' = TimerFlushRejected(f).logged
                      /\ exitCode' = TimerFlushRejected(f).exitCode
                      /\ UNCHANGED sd
                 ELSE /\ exitCode' = ExitStatus
                      /\ sd' = [sd EXCEPT !.pc = "exited"]
                      /\ UNCHANGED logged
       ELSE /\ flushes' = [flushes EXCEPT ![f].pc = "backoff",
                                          ![f].attempt = @ + 1]
            /\ UNCHANGED <<logged, sd, exitCode>>
  /\ UNCHANGED <<msgs, task, batch, pushCount, timerActive, inFlightUpserts,
                 metrics, dlqTopic, conn, rt, sideVars>>

\* retry(): the backoff timer of flush f fires and sendBatch is called again.
FlushRetry(f) ==
  /\ Running
  /\ flushes[f].pc = "backoff"
  /\ flushes' = [flushes EXCEPT ![f].pc = "sending", ![f].calls = @ + 1]
  /\ UNCHANGED <<msgs, task, batch, pushCount, timerActive, inFlightUpserts,
                 metrics, dlqTopic, logged, sd, conn, exitCode, rt, sideVars>>

(***************************************************************************)
(* process.on("SIGINT", ...).  sd.pc is the await the handler is at:       *)
(* "running" (no signal yet), "finalFlush", "drain", "consumerStop",       *)
(* "consumerDisconnect", "producerDisconnect", "driverClose", "exited".    *)
(*   flush            the flush record awaited by `await flushBatch()`,    *)
(*                    0 when the buffer was empty                          *)
(*   drain            the promises given to Promise.allSettled             *)
(*   pendingAtSigint  the upsert promises pending when the signal came     *)
(*   steps            the steps of the sequence completed so far           *)
(***************************************************************************)
SdInit == [pc |-> "running", flush |-> 0, drain |-> {}, pendingAtSigint |-> {},
           steps |-> <<>>]

\* clearInterval(flushTimer)
ClearInterval == FALSE

SIGINT ==
  /\ Running
  /\ sd.pc = "running"
  /\ timerActive' = ClearInterval
  /\ flushBatch("shutdown")
  /\ sd' = [sd EXCEPT !.pc = "finalFlush",
                      !.flush = IF Len(batch) = 0 THEN 0 ELSE Len(flushes) + 1,
                      !.pendingAtSigint = {p \in inFlightUpserts : Pending(p)},
                      !.steps = <<"clearInterval">>]
  /\ UNCHANGED <<msgs, task, pushCount, inFlightUpserts, metrics, dlqTopic,
                 logged, conn, exitCode, rt, sideVars>>

\* `await flushBatch()` resumes: if (inFlightUpserts.size) await Promise.allSettled(...)
\* else await consumer.stop()
FinalFlushDone ==
  /\ Running
  /\ sd.pc = "finalFlush"
  /\ IF sd.flush = 0 THEN TRUE ELSE flushes[sd.flush].pc = "ok"
  /\ IF inFlightUpserts # {}
       THEN /\ sd' = [sd EXCEPT !.pc = "drain", !.drain = inFlightUpserts,
                                !.steps = Append(@, "flush")]
            /\ logged' = logged \cup {<<"Waiting for in-flight upserts", 0>>}
       ELSE /\ sd' = [sd EXCEPT !.pc = "consumerStop",
                                !.steps = Append(Append(@, "flush"), "drain")]
            /\ UNCHANGED logged
  /\ UNCHANGED <<msgs, task, batch, pushCount, flushes, timerActive,
                 inFlightUpserts, metrics, dlqTopic, conn, exitCode, rt, sideVars>>

\* Promise.allSettled(inFlightUpserts) resolves: every promise given to it settled.
DrainDone ==
  /\ Running
  /\ sd.pc = "drain"
  /\ \A p \in sd.drain : ~Pending(p)
  /\ sd' = [sd EXCEPT !.pc = "consumerStop", !.steps = Append(@, "drain")]
  /\ UNCHANGED <<msgs, task, batch, pushCount, flushes, timerActive,
                 inFlightUpserts, metrics, dlqTopic, logged, conn, exitCode, rt, sideVars>>

\* await consumer.stop() resolves
ConsumerStops ==
  /\ Running
  /\ sd.pc = "consumerStop"
  /\ conn' = [conn EXCEPT !.consumer = FALSE]
  /\ sd' = [sd EXCEPT !.pc = "consumerDisconnect", !.steps = Append(@, "consumer.stop")]
  /\ UNCHANGED <<msgs, task, batch, pushCount, flushes, timerActive,
                 inFlightUpserts, metrics, dlqTopic, logged, exitCode, rt, sideVars>>

\* await consumer.disconnect() resolves
ConsumerDisconnects ==
  /\ Running
  /\ sd.pc = "consumerDisconnect"
  /\ sd' = [sd EXCEPT !.pc = "producerDisconnect",
                      !.steps = Append(@, "consumer.disconnect")]
  /\ UNCHANGED <<msgs, task, batch, pushCount, flushes, timerActive,
                 inFlightUpserts, metrics, dlqTopic, logged, conn, exitCode, rt, sideVars>>

\* await producer.disconnect() resolves
ProducerDisconnects ==
  /\ Running
  /\ sd.pc = "producerDisconnect"
  /\ conn' = [conn EXCEPT !.producer = FALSE]
  /\ sd' = [sd EXCEPT !.pc = "driverClose", !.steps = Append(@, "producer.disconnect")]
  /\ UNCHANGED <<msgs, task, batch, pushCount, flushes, timerActive,
                 inFlightUpserts, metrics, dlqTopic, logged, exitCode, rt, sideVars>>

\* await driver.close() resolves; finally { process.exit(0) }
DriverCloses ==
  /\ Running
  /\ sd.pc = "driverClose"
  /\ conn' = [conn EXCEPT !.driver = FALSE]
  /\ sd' = [sd EXCEPT !.pc = "exited", !.steps = Append(@, "driver.close")]
  /\ exitCode' = ExitStatus
  /\ UNCHANGED <<msgs, task, batch, pushCount, flushes, timerActive,
                 inFlightUpserts, metrics, dlqTopic, logged, rt, sideVars>>

\* consumer.stop(), consumer.disconnect(), producer.disconnect() or driver.close()
\* rejects: the rest of the try block is skipped; finally { process.exit(0) }
ShutdownStepRejects ==
  /\ Running
  /\ sd.pc \in {"consumerStop", "consumerDisconnect", "producerDisconnect", "driverClose"}
  /\ sd' = [sd EXCEPT !.pc = "exited"]
  /\ exitCode' = ExitStatus
  /\ UNCHANGED <<msgs, task, batch, pushCount, flushes, timerActive,
                 inFlightUpserts, metrics, dlqTopic, logged, conn, rt, sideVars>>

(***************************************************************************)
(* Specifications.                                                         *)
(***************************************************************************)
MetricsInit ==
  [consumed |-> [t \in Topics |-> 0],
   produced |-> 0,
   errors |-> [l \in Topics \X ErrorNames |-> 0],
   upsertsSuccess |-> 0,
   batchQueueSize |-> 0]

PipeInit ==
  /\ msgs = <<>>
  /\ task = <<>>
  /\ batch = <<>>
  /\ pushCount = 0
  /\ flushes = <<>>
  /\ timerActive = TRUE
  /\ inFlightUpserts = {}
  /\ metrics = MetricsInit
  /\ dlqTopic = <<>>
  /\ logged = {}
  /\ sd = SdInit
  /\ conn = [consumer |-> TRUE, producer |-> TRUE, driver |-> TRUE]
  /\ exitCode = -1

(***************************************************************************)
(* Plugin loading.  A path is a sequence of characters; "a" names the      *)
(* directory of the service's entry module (__dirname is /a), "p" the      *)
(* plugins base directory (baseDir), "q" is any other letter.              *)
(***************************************************************************)
Dirname == <<"/", "a">>
BaseDir == <<"p">>

\* pluginPath.replace(/[^a-zA-Z0-9/_-]/g, '')
AllowedChars == {"a", "p", "q", "/"}

Sanitize(path) == SelectSeq(path, LAMBDA c : c \in AllowedChars)

\* path.split("/")
RECURSIVE Segments(_)
Segments(str) ==
  IF \A k \in 1..Len(str) : str[k] # "/"
    THEN <<str>>
    ELSE LET k == CHOOSE j \in 1..Len(str) :
                    str[j] = "/" /\ \A h \in 1..(j - 1) : str[h] # "/"
         IN <<SubSeq(str, 1, k - 1)>> \o Segments(SubSeq(str, k + 1, Len(str)))

\* Normalisation of a segment list: "" and "." are dropped, ".." removes the
\* segment before it.
RECURSIVE Normalize(_, _)
Normalize(done, segs) ==
  IF segs = <<>> THEN done
  ELSE IF Head(segs) \in {<<>>, <<".">>} THEN Normalize(done, Tail(segs))
  ELSE IF Head(segs) = <<".", ".">>
    THEN Normalize(IF done = <<>> THEN done ELSE SubSeq(done, 1, Len(done) - 1),
                   Tail(segs))
  ELSE Normalize(Append(done, Head(segs)), Tail(segs))

\* node:path resolve(from, to) as the list of segments of the absolute path: an
\* absolute `to` replaces `from`.
Resolve(from, to) ==
  IF to # <<>> /\ to[1] = "/"
    THEN Normalize(<<>>, Segments(to))
    ELSE Normalize(<<>>, Segments(from) \o Segments(to))

\* The absolute path string of a segment list.
RECURSIVE PathString(_)
PathString(segs) ==
  IF segs = <<>> THEN <<>> ELSE <<"/">> \o Head(segs) \o PathString(Tail(segs))

\* fullPath.startsWith(basePath), on the path strings
StartsWith(str, prefix) ==
  Len(prefix) <= Len(str) /\ SubSeq(str, 1, Len(prefix)) = prefix

\* The resolved location is the directory `base` or a descendant of it.
IsInside(segs, base) ==
  Len(base) <= Len(segs) /\ SubSeq(segs, 1, Len(base)) = base

\* validatePluginPath(pluginPath, baseDir = "plugins"): ok is FALSE when it throws.
validatePluginPath(pluginPath) ==
  LET cleanPath == Sanitize(pluginPath)
      fullPath == PathString(Resolve(Dirname, cleanPath))
      basePath == PathString(Resolve(Dirname, BaseDir))
  IN [ok |-> StartsWith(fullPath, basePath), cleanPath |-> cleanPath]

\* Configured module paths: "p/q", "p", "../q", "pq/q", "q/q".
PluginPaths ==
  {<<"p", "/", "q">>, <<"p">>, <<".", ".", "/", "q">>, <<"p", "q", "/", "q">>,
   <<"q", "/", "q">>}

\* One entry of pluginMap.normalizers or pluginMap.upserters: its key, its module
\* path, and whether import() of the module fulfils.
ToolKeys == [k \in 1..MaxPlugins |-> <<"tool", k>>]
EventKeys == [k \in 1..MaxPlugins |-> <<"event_type", k>>]

EntryChoices == [path : PluginPaths, importOk : BOOLEAN]

PluginMaps ==
  UNION {[normalizers : [1..n -> EntryChoices], upserters : [1..m -> EntryChoices]] :
           <<n, m>> \in {nm \in (0..MaxPlugins) \X (0..MaxPlugins) :
                           nm[1] + nm[2] <= MaxPlugins}}

\* The loops have nothing to load (any more).
LdNone ==
  [pluginMap |-> [normalizers |-> <<>>, upserters |-> <<>>],
   nextNorm |-> 1, nextUps |-> 1, warned |-> <<>>, imported |-> {}]

LdStart(pm) == [LdNone EXCEPT !.pluginMap = pm]

\* registry[key] = module.default
Register(registry, key, mod) ==
  [k \in DOMAIN registry \cup {key} |-> IF k = key THEN mod ELSE registry[k]]

\* catch (err) { logger.warn({tool, error}, "... loading failed; skipped") }
EntryFailedSilently(warned, key) == warned

EntryFailed(warned, key) == Append(warned, key)

\* One iteration of a loading loop for the entry (key, e) of section sec:
\* try { validatePluginPath; await import; registry[key] = module.default } catch { warn }
LoadEntry(sec, registry, key, e) ==
  LET v == validatePluginPath(e.path)
  IN IF v.ok /\ e.importOk
       THEN [registry |-> Register(registry, key, v.cleanPath),
             warned |-> ld.warned,
             imported |-> ld.imported \cup {<<sec, key>>}]
       ELSE [registry |-> registry,
             warned |-> EntryFailed(ld.warned, key),
             imported |-> IF v.ok THEN ld.imported \cup {<<sec, key>>}
                                  ELSE ld.imported]

\* for (const [tool, mod] of Object.entries(pluginConfig.pluginMap.normalizers)) { ... }
LoadNormalizer ==
  /\ ld.nextNorm <= Len(ld.pluginMap.normalizers)
  /\ LET r == LoadEntry("normalizers", normalizers, ToolKeys[ld.nextNorm],
                        ld.pluginMap.normalizers[ld.nextNorm])
     IN /\ normalizers' = r.registry
        /\ ld' = [ld EXCEPT !.nextNorm = @ + 1, !.warned = r.warned,
                            !.imported = r.imported]
  /\ UNCHANGED <<pipeVars, rt, upserters, fp, db, up, nz, cu>>

\* for (const [evt, mod] of Object.entries(pluginConfig.pluginMap.upserters)) { ... }
LoadUpserter ==
  /\ ld.nextNorm > Len(ld.pluginMap.normalizers)
  /\ ld.nextUps <= Len(ld.pluginMap.upserters)
  /\ LET r == LoadEntry("upserters", upserters, EventKeys[ld.nextUps],
                        ld.pluginMap.upserters[ld.nextUps])
     IN /\ upserters' = r.registry
        /\ ld' = [ld EXCEPT !.nextUps = @ + 1, !.warned = r.warned,
                            !.imported = r.imported]
  /\ UNCHANGED <<pipeVars, rt, normalizers, fp, db, up, nz, cu>>

(***************************************************************************)
(* fingerprint(obj).  A string is a sequence of characters.  A field map   *)
(* is the sequence of its <<key, value>> pairs in insertion order, with    *)
(* distinct keys; a value is a string or a number.                         *)
(***************************************************************************)
\* The characters of the model's strings, in the order of their UTF-16 code units.
CodeUnitOrder ==
  <<"-", ".", "0", "1", "2", "5", "=", "A", "D", "E", "G", "H", "I", "N",
    "O", "R", "S", "T", "_", "a", "b", "c", "d", "e", "f", "g", "h", "i",
    "j", "k", "l", "m", "n", "o", "p", "q", "r", "s", "t", "u", "v", "w",
    "x", "y", "z", "|">>

\* The rank of a character's code unit among those of CodeUnitOrder.
CharCode == [c \in {CodeUnitOrder[i] : i \in 1..Len(CodeUnitOrder)} |->
               CHOOSE i \in 1..Len(CodeUnitOrder) : CodeUnitOrder[i] = c]

\* A string value, and a number value given by its decimal digits.
Str(chars) == [type |-> "string", v |-> chars]
Num(digits) == [type |-> "number", v |-> digits]

FieldKeys == {<<"a">>, <<"b">>, <<"c">>}
FieldValues == {Str(<<"1">>), Str(<<"2">>), Str(<<"1", "|", "b", "=", "2">>), Num(<<"1">>)}

FieldMaps ==
  {m \in UNION {[1..n -> FieldKeys \X FieldValues] : n \in 0..MaxFields} :
     \A i, j \in 1..Len(m) : i # j => m[i][1] # m[j][1]}

\* `${value}`: the string a value is converted to inside the template literal: a
\* string as it is, a number as its decimal digits.
TemplateString(val) == val.v

\* The default comparison of Array.prototype.sort: strings by their code units
RECURSIVE StringLeq(_, _)
StringLeq(x, y) ==
  IF x = <<>> THEN TRUE
  ELSE IF y = <<>> THEN FALSE
  ELSE IF CharCode[Head(x)] # CharCode[Head(y)] THEN CharCode[Head(x)] < CharCode[Head(y)]
  ELSE StringLeq(Tail(x), Tail(y))

\* Object.keys(obj): the keys in insertion order
ObjectKeys(m) == [i \in 1..Len(m) |-> m[i][1]]

\* obj[k]
Get(m, k) == (CHOOSE i \in 1..Len(m) : m[i][1] = k)

\* keys.sort()
RECURSIVE SortedSeq(_)
SortedSeq(S) ==
  IF S = {} THEN <<>>
  ELSE LET least == CHOOSE x \in S : \A y \in S : StringLeq(x, y)
       IN <<least>> \o SortedSeq(S \ {least})

KeysUnsorted(keys) == keys

Sort(keys) == SortedSeq({keys[i] : i \in 1..Len(keys)})

\* .map(k => `${k}=${obj[k]}`).join("|")
RECURSIVE JoinFields(_, _)
JoinFields(m, keys) ==
  IF keys = <<>> THEN <<>>
  ELSE Head(keys) \o <<"=">> \o TemplateString(m[Get(m, Head(keys))][2])
       \o (IF Len(keys) > 1 THEN <<"|">> ELSE <<>>)
       \o JoinFields(m, Tail(keys))

\* crypto.createHash("sha256").update(ordered).digest("hex"), taken as injective:
\* the digest stands for the one string it was computed from.
Sha256Hex(str) == <<"sha256", str>>

fingerprint(m) == Sha256Hex(JoinFields(m, Sort(ObjectKeys(m))))

FpNone == [pc |-> "idle", m1 |-> <<>>, m2 |-> <<>>, out1 |-> <<>>, out2 |-> <<>>]

\* fingerprint(m1) and fingerprint(m2) are computed.
Fingerprint ==
  /\ fp.pc = "call"
  /\ fp' = [fp EXCEPT !.pc = "done", !.out1 = fingerprint(fp.m1),
                      !.out2 = fingerprint(fp.m2)]
  /\ UNCHANGED <<pipeVars, rt, normalizers, upserters, ld, db, up, nz, cu>>

(***************************************************************************)
(* The example SENSOR_READING upserter.  The graph:                        *)
(*   sensors, locations, types, readings   the nodes, by their merge key   *)
(*   locatedAt, isType, coLocated, fromSensor   the relationships, as      *)
(*                                         <<start node, end node>>        *)
(*   sensorCount     location.sensorCount and sensorType.sensorCount       *)
(*   totalSensors    location.totalSensors                                 *)
(*   duplicateCount  reading.duplicateCount                                *)
(*   currentValue    sensor.currentValue                                   *)
(* A property of a node that does not exist is 0 (a value: "none").        *)
(* Timestamps and the unit and type properties are left out.               *)
(***************************************************************************)
SensorIds == {"temp-1", "hum-1"}
LocationNames == {"kitchen", "lab"}
SensorTypeNames == {"temperature", "humidity"}
Fingerprints == {"fp1", "fp2"}
Values == {"21.5", "22.0"}

\* The fingerprint is a hash over the value (and the other fields of the reading):
\* events with equal fingerprints carry equal values.
ValueOf(f) == IF f = "fp1" THEN "21.5" ELSE "22.0"

\* What the upserter reads from a DomainEvent: ev.meta.sensorId, ev.meta.location,
\* ev.meta.sensorType, ev.meta.value, ev.event.fingerprint.
SensorEvents ==
  {e \in [sensorId : SensorIds, location : LocationNames,
          sensorType : SensorTypeNames, value : Values, fingerprint : Fingerprints] :
     e.value = ValueOf(e.fingerprint)}

DbEmpty ==
  [sensors |-> {}, locations |-> {}, types |-> {}, readings |-> {},
   locatedAt |-> {}, isType |-> {}, coLocated |-> {}, fromSensor |-> {},
   sensorCount |-> [n \in LocationNames \cup SensorTypeNames |-> 0],
   totalSensors |-> [n \in LocationNames |-> 0],
   duplicateCount |-> [f \in Fingerprints |-> 0],
   currentValue |-> [x \in SensorIds |-> "none"]]

\* The nodes, the relationships and the per-location and per-type sensor counts.
Observable(d) ==
  [sensors |-> d.sensors, locations |-> d.locations, types |-> d.types,
   readings |-> d.readings, locatedAt |-> d.locatedAt, isType |-> d.isType,
   coLocated |-> d.coLocated, fromSensor |-> d.fromSensor,
   sensorCount |-> d.sensorCount, totalSensors |-> d.totalSensors]

\* up.pc is the statement the upserter awaits, 0 when no upsert is running.
\*   ev       the event of the application that is running or was the last to run
\*   applied  applications completed so far
\*   repeat   that application was given the event of the one before it
\*   before   the nodes, relationships and counts when that application was called
UpIdle ==
  [pc |-> 0, ev |-> CHOOSE e \in SensorEvents : TRUE, applied |-> 0,
   repeat |-> FALSE, before |-> Observable(DbEmpty)]

\* ON CREATE SET x.sensorCount = x.sensorCount + 1, in a MERGE of a relationship
CountAlways(created, n) == n + 1

CountOnCreate(created, n) == IF created THEN n + 1 ELSE n

\* MERGE (sensor:Sensor {id: $sensorId}) ... SET sensor.lastSeen = ...,
\*   sensor.currentValue = $value, ...
SensorStatement(d, ev) ==
  [d EXCEPT !.sensors = @ \cup {ev.sensorId},
            !.currentValue[ev.sensorId] = ev.value]

\* MERGE (location:Location {name: $location}) ON CREATE SET location.sensorCount = 0
\* WITH location MATCH (sensor:Sensor {id: $sensorId})
\* MERGE (sensor)-[located:LOCATED_AT]->(location)
\*   ON CREATE SET location.sensorCount = location.sensorCount + 1
LocationStatement(d, ev) ==
  LET rel == <<ev.sensorId, ev.location>>
      matched == ev.sensorId \in d.sensors
      created == matched /\ rel \notin d.locatedAt
  IN [d EXCEPT !.locations = @ \cup {ev.location},
               !.locatedAt = IF matched THEN @ \cup {rel} ELSE @,
               !.sensorCount[ev.location] = CountOnCreate(created, @)]

\* MERGE (sensorType:SensorType {name: $sensorType}) ON CREATE SET sensorType.sensorCount = 0
\* WITH sensorType MATCH (sensor:Sensor {id: $sensorId})
\* MERGE (sensor)-[isType:IS_TYPE]->(sensorType)
\*   ON CREATE SET sensorType.sensorCount = sensorType.sensorCount + 1
SensorTypeStatement(d, ev) ==
  LET rel == <<ev.sensorId, ev.sensorType>>
      matched == ev.sensorId \in d.sensors
      created == matched /\ rel \notin d.isType
  IN [d EXCEPT !.types = @ \cup {ev.sensorType},
               !.isType = IF matched THEN @ \cup {rel} ELSE @,
               !.sensorCount[ev.sensorType] = CountOnCreate(created, @)]

\* MATCH (thisSensor:Sensor {id: $sensorId})-[:LOCATED_AT]->(location:Location)
\* MATCH (otherSensor:Sensor)-[:LOCATED_AT]->(location) WHERE thisSensor <> otherSensor
\* MERGE (thisSensor)-[colocated:CO_LOCATED]-(otherSensor)
\* The undirected MERGE matches a relationship of either direction and creates one
\* from thisSensor when there is none.
CoLocatedStatement(d, ev) ==
  LET this == ev.sensorId
      others == {o \in d.sensors \ {this} :
                   \E l \in d.locations :
                     <<this, l>> \in d.locatedAt /\ <<o, l>> \in d.locatedAt}
  IN [d EXCEPT !.coLocated = @ \cup {<<this, o>> : o \in
                                       {x \in others : <<x, this>> \notin d.coLocated}}]

\* MATCH (sensor:Sensor {id: $sensorId})
\* MERGE (reading:SensorReading {fingerprint: $fingerprint})
\*   ON MATCH SET reading.duplicateCount = COALESCE(reading.duplicateCount, 0) + 1
\* MERGE (reading)-[:FROM_SENSOR]->(sensor)
ReadingStatement(d, ev) ==
  LET matched == ev.sensorId \in d.sensors
      exists == ev.fingerprint \in d.readings
  IN IF matched
       THEN [d EXCEPT !.readings = @ \cup {ev.fingerprint},
                      !.duplicateCount[ev.fingerprint] = IF exists THEN @ + 1 ELSE @,
                      !.fromSensor = @ \cup {<<ev.fingerprint, ev.sensorId>>}]
       ELSE d

\* MATCH (location:Location {name: $location})<-[:LOCATED_AT]-(sensors:Sensor)
\* WITH location, count(sensors) as totalSensors SET location.totalSensors = totalSensors
LocationStatsStatement(d, ev) ==
  LET at == {x \in d.sensors : <<x, ev.location>> \in d.locatedAt}
  IN IF at = {} THEN d
     ELSE [d EXCEPT !.totalSensors[ev.location] = Cardinality(at)]

\* The n-th of the six `await retry(() => s.run(...))` of upsert(), applied to graph d.
Statement(n, d, ev) ==
  CASE n = 1 -> SensorStatement(d, ev)
    [] n = 2 -> LocationStatement(d, ev)
    [] n = 3 -> SensorTypeStatement(d, ev)
    [] n = 4 -> CoLocatedStatement(d, ev)
    [] n = 5 -> ReadingStatement(d, ev)
    [] n = 6 -> LocationStatsStatement(d, ev)

\* upsert(ev) run from its call to its return with no other statement in between.
RECURSIVE UpsertFrom(_, _, _)
UpsertFrom(n, d, ev) ==
  IF n > 6 THEN d ELSE UpsertFrom(n + 1, Statement(n, d, ev), ev)

\* upsert(ev) is called: the first statement is sent.
UpsertCall(ev) ==
  /\ up.pc = 0
  /\ up.applied < MaxUpserts
  /\ up' = [up EXCEPT !.pc = 1, !.ev = ev,
                      !.repeat = (up.applied >= 1 /\ ev = up.ev),
                      !.before = Observable(db)]
  /\ UNCHANGED <<pipeVars, rt, normalizers, upserters, ld, fp, db, nz, cu>>

\* The statement on the Sensor node completes.
MergeSensor ==
  /\ up.pc = 1
  /\ db' = SensorStatement(db, up.ev)
  /\ up' = [up EXCEPT !.pc = 2]
  /\ UNCHANGED <<pipeVars, rt, normalizers, upserters, ld, fp, nz, cu>>

\* The statement on the Location node and LOCATED_AT completes.
MergeLocation ==
  /\ up.pc = 2
  /\ db' = LocationStatement(db, up.ev)
  /\ up' = [up EXCEPT !.pc = 3]
  /\ UNCHANGED <<pipeVars, rt, normalizers, upserters, ld, fp, nz, cu>>

\* The statement on the SensorType node and IS_TYPE completes.
MergeSensorType ==
  /\ up.pc = 3
  /\ db' = SensorTypeStatement(db, up.ev)
  /\ up' = [up EXCEPT !.pc = 4]
  /\ UNCHANGED <<pipeVars, rt, normalizers, upserters, ld, fp, nz, cu>>

\* The CO_LOCATED statement completes.
MergeCoLocated ==
  /\ up.pc = 4
  /\ db' = CoLocatedStatement(db, up.ev)
  /\ up' = [up EXCEPT !.pc = 5]
  /\ UNCHANGED <<pipeVars, rt, normalizers, upserters, ld, fp, nz, cu>>

\* The SensorReading statement completes.
MergeReading ==
  /\ up.pc = 5
  /\ db' = ReadingStatement(db, up.ev)
  /\ up' = [up EXCEPT !.pc = 6]
  /\ UNCHANGED <<pipeVars, rt, normalizers, upserters, ld, fp, nz, cu>>

\* The location statistics statement completes and upsert() returns.
SetLocationStats ==
  /\ up.pc = 6
  /\ db' = LocationStatsStatement(db, up.ev)
  /\ up' = [up EXCEPT !.pc = 0, !.applied = @ + 1]
  /\ UNCHANGED <<pipeVars, rt, normalizers, upserters, ld, fp, nz, cu>>

(***************************************************************************)
(* Two upsert() invocations in flight at once: handle() of two domain      *)
(* messages called each its upserter, and the event loop resumes either    *)
(* invocation whenever its pending statement completes.                    *)
(*   ev     the two events                                                 *)
(*   pc     per invocation the statement it awaits, 0 before the call and  *)
(*          7 when upsert() has returned                                   *)
(*   first  the invocation that returned first, 0 while none has           *)
(***************************************************************************)
Returned == 7

CuIdle ==
  [ev |-> [k \in 1..2 |-> CHOOSE e \in SensorEvents : TRUE],
   pc |-> [k \in 1..2 |-> 0], first |-> 0]

\* The pending statement of invocation k completes and the next one is sent.
StatementCompletes(k) ==
  /\ cu.pc[k] \in 1..6
  /\ db' = Statement(cu.pc[k], db, cu.ev[k])
  /\ cu' = [cu EXCEPT !.pc[k] = @ + 1,
                      !.first = IF @ = 0 /\ cu.pc[k] = 6 THEN k ELSE @]
  /\ UNCHANGED <<pipeVars, rt, normalizers, upserters, ld, fp, up, nz>>

(***************************************************************************)
(* The example sensor normalizer (plugins/example/normalizer.ts) and the   *)
(* raw branch of handle() for one sensor report.  A field of the parsed    *)
(* JSON is a value [type, v]: a string, a number by its decimal digits,    *)
(* or undefined when the field is absent.                                  *)
(***************************************************************************)
Undefined == [type |-> "undefined", v |-> <<>>]

IsString(val) == val.type = "string"
IsNumber(val) == val.type = "number"

\* sensorId.toLowerCase()
LowerCase(c) == IF c = "T" THEN "t" ELSE IF c = "H" THEN "h" ELSE c

ToLowerCase(str) == [i \in 1..Len(str) |-> LowerCase(str[i])]

\* id.includes(sub)
Includes(str, sub) ==
  \E i \in 1..(Len(str) - Len(sub) + 1) : SubSeq(str, i, i + Len(sub) - 1) = sub

Sub_temp == <<"t", "e", "m", "p">>
Sub_temperature == <<"t", "e", "m", "p", "e", "r", "a", "t", "u", "r", "e">>
Sub_humid == <<"h", "u", "m", "i", "d">>
Sub_moisture == <<"m", "o", "i", "s", "t", "u", "r", "e">>
Sub_pressure == <<"p", "r", "e", "s", "s", "u", "r", "e">>
Sub_press == <<"p", "r", "e", "s", "s">>
Sub_light == <<"l", "i", "g", "h", "t">>
Sub_lux == <<"l", "u", "x">>
Sub_motion == <<"m", "o", "t", "i", "o", "n">>
Sub_pir == <<"p", "i", "r">>
Sub_air == <<"a", "i", "r">>
Sub_co2 == <<"c", "o", "2">>

\* The first matching pattern decides the type.
TypeOf(id) ==
  IF Includes(id, Sub_temp) \/ Includes(id, Sub_temperature) THEN "temperature"
  ELSE IF Includes(id, Sub_humid) \/ Includes(id, Sub_moisture) THEN "humidity"
  ELSE IF Includes(id, Sub_pressure) \/ Includes(id, Sub_press) THEN "pressure"
  ELSE IF Includes(id, Sub_light) \/ Includes(id, Sub_lux) THEN "light"
  ELSE IF Includes(id, Sub_motion) \/ Includes(id, Sub_pir) THEN "motion"
  ELSE IF Includes(id, Sub_air) \/ Includes(id, Sub_co2) THEN "air_quality"
  ELSE "generic"

\* function deriveSensorType(sensorId) { const id = sensorId.toLowerCase(); ... }
deriveSensorTypeCaseSensitive(sensorId) == TypeOf(sensorId)

deriveSensorType(sensorId) == TypeOf(ToLowerCase(sensorId))

\* RawSensorSchema.safeParse(raw).success
RawSensorSchemaIgnoresVersion(raw) ==
  /\ raw.tool = "sensor_report"
  /\ IsString(raw.runId)
  /\ IsString(raw.data.sensorId) /\ IsNumber(raw.data.value)
  /\ IsString(raw.data.unit) /\ IsString(raw.data.location)

RawSensorSchema(raw) ==
  /\ raw.tool = "sensor_report"
  /\ IsString(raw.schemaVersion)
  /\ IsString(raw.runId)
  /\ IsString(raw.data.sensorId) /\ IsNumber(raw.data.value)
  /\ IsString(raw.data.unit) /\ IsString(raw.data.location)

Key_type == <<"t", "y", "p", "e">>
Key_sensor == <<"s", "e", "n", "s", "o", "r">>
Key_location == <<"l", "o", "c", "a", "t", "i", "o", "n">>
Key_value == <<"v", "a", "l", "u", "e">>
Key_unit == <<"u", "n", "i", "t">>
Lit_SENSOR_READING == <<"S", "E", "N", "S", "O", "R", "_", "R", "E", "A", "D", "I", "N", "G">>

\* fingerprint({ type: "SENSOR_READING", sensor: payload.sensorId,
\*   location: payload.location, value: payload.value, unit: payload.unit })
ReadingFields(payload) ==
  <<<<Key_type, Str(Lit_SENSOR_READING)>>, <<Key_sensor, payload.sensorId>>,
    <<Key_location, payload.location>>, <<Key_value, payload.value>>,
    <<Key_unit, payload.unit>>>>

\* What a normalizer returns: null, or a list of events.
Null == [null |-> TRUE, list |-> <<>>]
List(events) == [null |-> FALSE, list |-> events]

\* normalize(raw)
normalize(raw) ==
  IF ~RawSensorSchema(raw) THEN Null
  ELSE List(<<[specVersion |-> "1.0",
          event |-> [event_type |-> "SENSOR_READING",
                     fingerprint |-> fingerprint(ReadingFields(raw.data))],
          meta |-> [sensorId |-> raw.data.sensorId,
                    sensorType |-> deriveSensorType(raw.data.sensorId.v),
                    value |-> raw.data.value,
                    unit |-> raw.data.unit,
                    location |-> raw.data.location,
                    toolRunId |-> raw.runId,
                    rawTool |-> raw.tool,
                    rawRunId |-> raw.runId]]>>)

\* The raw messages: sensor reports and reports of another tool, with and without
\* schemaVersion, with a number or a string as value.
Id_temp1 == <<"t", "e", "m", "p", "-", "1">>
Id_Temp2 == <<"T", "e", "m", "p", "-", "2">>
Id_humid1 == <<"h", "u", "m", "i", "d", "-", "1">>
Id_airtemp == <<"a", "i", "r", "_", "t", "e", "m", "p">>
Id_door == <<"d", "o", "o", "r", "-", "1">>
Loc_kitchen == <<"k", "i", "t", "c", "h", "e", "n">>
Loc_lab == <<"l", "a", "b">>
Unit_celsius == <<"c", "e", "l", "s", "i", "u", "s">>
Val_21_5 == <<"2", "1", ".", "5">>
Run_r1 == <<"r", "1">>
Ver_1_0 == <<"1", ".", "0">>

SensorReports ==
  [tool : {"sensor_report", "nmap"},
   schemaVersion : {Undefined, Str(Ver_1_0)},
   runId : {Str(Run_r1)},
   data : [sensorId : {Str(Id_temp1), Str(Id_Temp2), Str(Id_humid1),
                       Str(Id_airtemp), Str(Id_door)},
           value : {Num(Val_21_5), Str(Val_21_5)},
           unit : {Str(Unit_celsius)},
           location : {Str(Loc_kitchen), Str(Loc_lab)}]]

NzNone == [pc |-> "idle", raw |-> <<>>, events |-> <<>>, pushed |-> <<>>]

\* RawMessageSchema.safeParse(obj).success: tool and runId are non-empty strings
RawMessageSchema(raw) == raw.tool # "" /\ IsString(raw.runId) /\ raw.runId.v # <<>>

\* DomainEventSchema.safeParse(ev).success of the core schemas
DomainEventSchema(ev) ==
  /\ ev.specVersion \in STRING
  /\ ev.event.event_type # ""
  /\ ev.event.fingerprint # <<>>

\* handle() for the report nz.raw on the raw topic, registries as loaded:
\* const norm = normalizers[obj.tool]; if (norm) { const events = norm(obj) || [];
\* for (const ev of events) { ...; batch.push({ topic: domainTopic,
\*   messages: [{ key: ev.event?.fingerprint, value: JSON.stringify(ev) }] }) } }
HandleSensorReport ==
  /\ nz.pc = "delivered"
  /\ RawMessageSchema(nz.raw)
  /\ LET returned == IF Lookup(normalizers, nz.raw.tool) = "own"
                       THEN normalize(nz.raw) ELSE Null
         events == IF returned.null THEN <<>> ELSE returned.list
     IN /\ \A k \in 1..Len(events) : DomainEventSchema(events[k])
        /\ nz' = [nz EXCEPT
                    !.pc = "done",
                    !.events = events,
                    !.pushed = [k \in 1..Len(events) |->
                                  [topic |-> "domain",
                                   key |-> events[k].event.fingerprint,
                                   value |-> events[k]]]]
        /\ batch' = PushEvents(batch, 1, Len(events))
        /\ pushCount' = pushCount + Len(events)
  /\ UNCHANGED <<msgs, task, flushes, timerActive, inFlightUpserts, metrics,
                 dlqTopic, logged, sd, conn, exitCode, rt, normalizers, upserters,
                 ld, fp, db, up, cu>>

\* The registries after the plugin map with the example plugins was loaded.
LoadedNormalizers == [k \in {RegisteredTool} |-> "plugins/example/normalizer"]
LoadedUpserters == [k \in {RegisteredEventType} |-> "plugins/example/upserter"]

RegistryInit ==
  /\ normalizers = LoadedNormalizers
  /\ upserters = LoadedUpserters
  /\ ld = LdNone
  /\ fp = FpNone
  /\ db = DbEmpty
  /\ up = UpIdle
  /\ nz = NzNone
  /\ cu = CuIdle

Init == PipeInit /\ rt = RtIdle /\ RegistryInit

Next ==
  \/ \E m \in Messages : Deliver(m)
  \/ \E i \in 1..Len(task) : RetryAttempt(i)
  \/ \E i \in 1..Len(task) : UpsertFulfils(i)
  \/ \E i \in 1..Len(task) : UpsertRejects(i)
  \/ \E i \in 1..Len(task) : DlqSendFulfils(i)
  \/ \E i \in 1..Len(task) : DlqSendRejects(i)
  \/ TimerTick
  \/ \E f \in 1..Len(flushes) : FlushSendFulfils(f)
  \/ \E f \in 1..Len(flushes) : FlushSendRejects(f)
  \/ \E f \in 1..Len(flushes) : FlushRetry(f)
  \/ SIGINT
  \/ FinalFlushDone
  \/ DrainDone
  \/ ConsumerStops
  \/ ConsumerDisconnects
  \/ ProducerDisconnects
  \/ DriverCloses
  \/ ShutdownStepRejects

Spec == Init /\ [][Next]_vars

\* retry() on its own, for every budget 0..MaxRetries and every operation that first
\* succeeds on call 1..MaxRetries+2 or never.
InitRetry ==
  /\ PipeInit
  /\ RegistryInit
  /\ rt \in {RetryCall(n, k) : n \in 0..MaxRetries, k \in 0..(MaxRetries + 2)}

NextRetry == RetryFnFulfils \/ RetryFnRejects \/ RetrySleepDone

SpecRetry == InitRetry /\ [][NextRetry]_vars

\* Startup: the plugin loading loops, for every plugin map of at most MaxPlugins
\* entries.
InitLoad ==
  /\ PipeInit
  /\ rt = RtIdle
  /\ normalizers = <<>>
  /\ upserters = <<>>
  /\ ld \in {LdStart(pm) : pm \in PluginMaps}
  /\ fp = FpNone
  /\ db = DbEmpty
  /\ up = UpIdle
  /\ nz = NzNone
  /\ cu = CuIdle

NextLoad == LoadNormalizer \/ LoadUpserter

SpecLoad == InitLoad /\ [][NextLoad]_vars

\* fingerprint() on every pair of field maps of at most MaxFields fields.
InitFp ==
  /\ PipeInit
  /\ rt = RtIdle
  /\ normalizers = LoadedNormalizers
  /\ upserters = LoadedUpserters
  /\ ld = LdNone
  /\ fp \in {[FpNone EXCEPT !.pc = "call", !.m1 = m1, !.m2 = m2] :
               m1 \in FieldMaps, m2 \in FieldMaps}
  /\ db = DbEmpty
  /\ up = UpIdle
  /\ nz = NzNone
  /\ cu = CuIdle

NextFp == Fingerprint

SpecFp == InitFp /\ [][NextFp]_vars

\* The example upserter applied to up to MaxUpserts events, one after the other,
\* starting from an empty graph.
InitUpsert ==
  /\ PipeInit
  /\ rt = RtIdle
  /\ RegistryInit

NextUpsert ==
  \/ \E ev \in SensorEvents : UpsertCall(ev)
  \/ MergeSensor
  \/ MergeLocation
  \/ MergeSensorType
  \/ MergeCoLocated
  \/ MergeReading
  \/ SetLocationStats

SpecUpsert == InitUpsert /\ [][NextUpsert]_vars

\* The service while no SIGINT arrives: messages are delivered, the timer flushes,
\* and every backoff timer fires, every upserter promise settles and every
\* dead-letter send settles.
NextRunning ==
  \/ \E m \in Messages : Deliver(m)
  \/ \E i \in 1..Len(task) : RetryAttempt(i)
  \/ \E i \in 1..Len(task) : UpsertFulfils(i)
  \/ \E i \in 1..Len(task) : UpsertRejects(i)
  \/ \E i \in 1..Len(task) : DlqSendFulfils(i)
  \/ \E i \in 1..Len(task) : DlqSendRejects(i)
  \/ TimerTick
  \/ \E f \in 1..Len(flushes) : FlushSendFulfils(f)
  \/ \E f \in 1..Len(flushes) : FlushSendRejects(f)
  \/ \E f \in 1..Len(flushes) : FlushRetry(f)

Settling ==
  \A i \in 1..MaxMsgs :
    /\ WF_vars(i <= Len(task) /\ RetryAttempt(i))
    /\ WF_vars(i <= Len(task) /\ (UpsertFulfils(i) \/ UpsertRejects(i)))
    /\ WF_vars(i <= Len(task) /\ (DlqSendFulfils(i) \/ DlqSendRejects(i)))

SpecRunning == Init /\ [][NextRunning]_vars /\ Settling

\* Two domain events whose upserter invocations were both called on an empty graph.
InitConcurrentUpsert ==
  /\ PipeInit
  /\ rt = RtIdle
  /\ normalizers = LoadedNormalizers
  /\ upserters = LoadedUpserters
  /\ ld = LdNone
  /\ fp = FpNone
  /\ db = DbEmpty
  /\ up = UpIdle
  /\ nz = NzNone
  /\ cu \in {[CuIdle EXCEPT !.ev = <<e1, e2>>, !.pc = <<1, 1>>] :
               e1 \in SensorEvents, e2 \in SensorEvents}

NextConcurrentUpsert == \E k \in 1..2 : StatementCompletes(k)

SpecConcurrentUpsert == InitConcurrentUpsert /\ [][NextConcurrentUpsert]_vars

\* One report on the raw topic, handled with the example normalizer registered.
InitNormalize ==
  /\ PipeInit
  /\ rt = RtIdle
  /\ normalizers = LoadedNormalizers
  /\ upserters = LoadedUpserters
  /\ ld = LdNone
  /\ fp = FpNone
  /\ db = DbEmpty
  /\ up = UpIdle
  /\ nz \in {[NzNone EXCEPT !.pc = "delivered", !.raw = r] : r \in SensorReports}
  /\ cu = CuIdle

NextNormalize == HandleSensorReport

SpecNormalize == InitNormalize /\ [][NextNormalize]_vars

(***************************************************************************)
(* Properties.                                                             *)
(***************************************************************************)
FlushIds == 1..Len(flushes)
TaskIds == 1..Len(task)
SendingIds(f) == {flushes[f].sending[k].id : k \in 1..Len(flushes[f].sending)}
BatchIds == {batch[k].id : k \in 1..Len(batch)}
InProgress(f) == flushes[f].pc \in {"sending", "backoff"}
Count(seq, x) == Cardinality({k \in 1..Len(seq) : seq[k] = x})

\* err.name of the error that fails every attempt of a message of this kind
ErrorKind(m) ==
  IF m.kind = "badjson" THEN "SyntaxError"
  ELSE IF m.kind = "upsert" THEN "UpsertError"
  ELSE IF m.kind \in {"noNormalizer", "noUpserter"} THEN "TypeError"
  ELSE "Error"

\* C1: for every delivered message with a non-null value, handle() is called at most
\* 3 times; when 3 attempts failed the processing-errors counter was incremented
\* exactly once for that message, under the label (topic, error kind), and exactly
\* one dead-letter publish of that message's payload was attempted; a message with a
\* successful attempt causes no error increment and no dead-letter publish.
C1_RetryThenDeadLetter ==
  /\ \A i \in TaskIds : msgs[i].kind # "null" =>
       LET t == task[i] IN
         /\ t.calls <= 3
         /\ t.attempt <= t.calls
         /\ t.errs = (IF t.attempt = 3 THEN 1 ELSE 0)
         /\ t.dlqCalls = t.errs
         /\ Count(dlqTopic, i) <= t.dlqCalls
         /\ t.errs = 1 <=> t.pc \in {"dlq", "failed"}
         /\ t.pc = "done" => t.errs = 0 /\ t.dlqCalls = 0 /\ Count(dlqTopic, i) = 0
  /\ \A l \in Topics \X ErrorNames :
       metrics.errors[l] =
         Cardinality({i \in TaskIds : /\ task[i].errs = 1
                                      /\ l = <<msgs[i].topic, ErrorKind(msgs[i])>>})

\* C1 witness: one message failed three times and reached the dead-letter topic,
\* another succeeded on its second attempt.
C1_Witness ==
  \E i, j \in TaskIds :
    /\ task[i].pc = "failed" /\ task[i].calls = 3 /\ Count(dlqTopic, i) = 1
    /\ task[j].pc = "done" /\ task[j].attempt = 1 /\ task[j].calls = 2

\* C2: a flush that finds N >= 1 messages in the buffer captures all N of them, in
\* push order (the pushes numbered from the previous capture up to this one), leaves
\* none of them in the buffer, and when its first send succeeds it has made exactly
\* one sendBatch call.
C2_FlushSendsWholeBufferOnce ==
  \A f \in FlushIds :
    LET fl == flushes[f]
        lo == IF f = 1 THEN 0 ELSE flushes[f - 1].at
    IN /\ Len(fl.sending) >= 1
       /\ Len(fl.sending) = fl.at - lo
       /\ \A k \in 1..Len(fl.sending) : fl.sending[k].id = lo + k
       /\ \A k \in 1..Len(batch) : batch[k].id > fl.at
       /\ (fl.pc = "ok" /\ fl.attempt = 0) => fl.calls = 1

\* C2 witness: a flush of two messages succeeded on its first send.
C2_Witness ==
  \E f \in FlushIds :
    /\ flushes[f].pc = "ok" /\ flushes[f].attempt = 0
    /\ Len(flushes[f].sending) >= 2

C4_FailedTimerFlushIsLoggedAndDropped ==
  \A f \in FlushIds :
    (flushes[f].by = "timer" /\ flushes[f].pc = "failed") =>
      /\ <<"flushBatch failed", f>> \in logged
      /\ exitCode # -1 => (exitCode = 0 /\ sd.pc = "exited")
      /\ sd.pc = "running" => timerActive
      /\ SendingIds(f) \cap BatchIds = {}
      /\ \A g \in FlushIds : g > f =>
           \A id \in SendingIds(g) : id > flushes[f].at

\* C4 witness: after a timer-triggered flush failed, a later flush was sent.
C4_Witness ==
  \E f, g \in FlushIds :
    /\ f < g
    /\ flushes[f].by = "timer" /\ flushes[f].pc = "failed"
    /\ flushes[g].pc = "ok"
    /\ exitCode = -1

\* C5: the In-Flight Set holds the promise of every upserter invocation that is
\* pending, and only promises that have not settled.
C5_InFlightSetHoldsOnlyPending ==
  /\ \A i \in TaskIds :
       task[i].pc = "upserting" => Promise(i, task[i].calls) \in inFlightUpserts
  /\ \A p \in inFlightUpserts : Pending(p)

\* C6: once the storage driver is closed or the process has exited, every upsert
\* promise that was pending when SIGINT arrived has settled.
C6_ShutdownWaitsForPendingUpserts ==
  (~conn.driver \/ exitCode # -1) => \A p \in sd.pendingAtSigint : ~Pending(p)

ShutdownSteps ==
  <<"clearInterval", "flush", "drain", "consumer.stop", "consumer.disconnect",
    "producer.disconnect", "driver.close">>

\* C7: the completed shutdown steps are always a prefix of: timer cancelled, final
\* flush, settle-all join, consumer stopped and disconnected, producer disconnected,
\* driver closed; the process exits only after all of them completed; and every
\* timer-triggered flush started before the timer was cancelled.
C7_ShutdownOrder ==
  /\ Len(sd.steps) <= Len(ShutdownSteps)
  /\ sd.steps = SubSeq(ShutdownSteps, 1, Len(sd.steps))
  /\ exitCode # -1 => sd.steps = ShutdownSteps
  /\ ~conn.driver => sd.steps = ShutdownSteps
  /\ ~conn.producer => Len(sd.steps) >= 6
  /\ ~conn.consumer => Len(sd.steps) >= 4
  /\ sd.pc # "running" => ~timerActive
  /\ \A f \in FlushIds : flushes[f].by = "timer" => flushes[f].sdpc = "running"

\* C8: for a budget n and an operation that fails on every call retry() makes, the
\* operation is never called more than n+1 times, retry() never resolves, and when it
\* rejects it has called the operation exactly n+1 times and rejects with the error
\* of call n+1.
C8_AlwaysFailingIsCalledNPlusOneTimes ==
  (rt.pc # "idle" /\ (rt.plan = 0 \/ rt.plan > rt.retries + 1)) =>
    /\ rt.calls <= rt.retries + 1
    /\ rt.pc # "resolved"
    /\ rt.pc = "rejected" => (rt.calls = rt.retries + 1 /\ rt.err = rt.calls)
    /\ rt.calls = rt.retries + 1 => rt.pc \in {"calling", "rejected"}

\* C8 witness: retries = 2 and an operation that always fails: rejected after 3 calls.
C8_Witness ==
  rt.pc = "rejected" /\ rt.plan = 0 /\ rt.retries = 2 /\ rt.calls = 3 /\ rt.err = 3

\* C9: for an operation that first succeeds on call k <= retries+1, retry() never
\* rejects and never calls the operation more than k times, and when it resolves it
\* has called it exactly k times and returns the result of call k.
C9_SuccessStopsRetrying ==
  (rt.pc # "idle" /\ rt.plan >= 1 /\ rt.plan <= rt.retries + 1) =>
    /\ rt.calls <= rt.plan
    /\ rt.pc # "rejected"
    /\ rt.pc = "resolved" => (rt.calls = rt.plan /\ rt.result = rt.plan)
    /\ rt.calls = rt.plan => rt.pc \in {"calling", "resolved"}

\* C9 witness: the operation succeeds on its 2nd call: resolved after 2 calls.
C9_Witness ==
  rt.pc = "resolved" /\ rt.plan = 2 /\ rt.retries = 2 /\ rt.calls = 2 /\ rt.result = 2

\* C10: a raw message one of whose candidate events violates DomainEventSchema takes
\* the failure path, and no event derived from it is in the buffer or in a flush.
C10_BadEventFailsWholeMessage ==
  \A i \in TaskIds :
    (msgs[i].kind = "events" /\ \E k \in 1..Len(msgs[i].events) : ~msgs[i].events[k]) =>
      /\ task[i].pc \in {"backoff", "dlq", "failed"}
      /\ \A k \in 1..Len(batch) : batch[k].msg # i
      /\ \A f \in FlushIds : \A k \in 1..Len(flushes[f].sending) :
           flushes[f].sending[k].msg # i

\* C11: a schema-valid raw message whose tool has no registered normalizer, and a
\* schema-valid domain event whose event_type has no registered upserter, is dropped
\* silently: its single attempt succeeds, no handler is invoked for it (no upserter
\* promise, nothing pushed to the buffer or captured by a flush), no processing error
\* is counted and nothing is published to the dead-letter topic.
C11_UnregisteredIsDroppedSilently ==
  \A i \in TaskIds :
    (msgs[i].kind \in {"noNormalizer", "noUpserter"}
       /\ msgs[i].key \notin DOMAIN (IF msgs[i].topic = "raw" THEN normalizers
                                                               ELSE upserters)) =>
      /\ task[i].pc = "done"
      /\ task[i].calls = 1 /\ task[i].attempt = 0
      /\ task[i].errs = 0 /\ task[i].dlqCalls = 0
      /\ Count(dlqTopic, i) = 0
      /\ \A p \in inFlightUpserts : p[1] # i
      /\ \A k \in 1..Len(batch) : batch[k].msg # i
      /\ \A f \in FlushIds : \A k \in 1..Len(flushes[f].sending) :
           flushes[f].sending[k].msg # i
      /\ \A e \in ErrorNames : metrics.errors[<<msgs[i].topic, e>>] =
           Cardinality({j \in TaskIds : /\ j # i /\ task[j].errs = 1
                                         /\ msgs[j].topic = msgs[i].topic
                                         /\ ErrorKind(msgs[j]) = e})

\* The raw messages for which the registered normalizer returns null or [].
ReturnsNoEvents(m) ==
  m.topic = "raw" /\ (m.kind = "normNull" \/ (m.kind = "events" /\ m.events = <<>>))

C13_FailuresStayInsideTheCallback ==
  /\ exitCode \in {-1, 0}
  /\ exitCode # -1 => sd.pc = "exited"
  /\ Len(task) = Len(msgs)
  /\ \A i \in TaskIds :
       /\ task[i].pc \in {"skipped", "upserting", "backoff", "dlq", "done", "failed"}
       /\ msgs[i].kind = "null" <=> task[i].pc = "skipped"
       /\ msgs[i].kind # "null" => task[i].calls >= 1
       /\ task[i].attempt >= 1 =>
            task[i].pc \in {"backoff", "upserting", "dlq", "done", "failed"}

\* C13 witness: a message failed three times and its dead-letter publish failed too;
\* the process still runs and another message was processed to success.
C13_Witness ==
  \E i, j \in TaskIds :
    /\ i < j
    /\ task[i].pc = "failed" /\ <<"DLQ publish failed", i>> \in logged
    /\ task[j].pc = "done"
    /\ exitCode = -1

\* C14: when the dead-letter publish of a message fails, the failure is logged and
\* that is all: the publish was attempted once, the payload is not in the dead-letter
\* topic, the message's one processing-error increment is the only one (the counters
\* still equal the number of permanently failed messages), the process keeps running,
\* and every other message still follows its own retry and dead-letter path.
C14_DlqPublishFailureIsOnlyLogged ==
  \A i \in TaskIds : <<"DLQ publish failed", i>> \in logged =>
    /\ task[i].pc = "failed"
    /\ task[i].dlqCalls = 1
    /\ task[i].errs = 1
    /\ Count(dlqTopic, i) = 0
    /\ exitCode # -1 => (exitCode = 0 /\ sd.pc = "exited")
    /\ \A l \in Topics \X ErrorNames :
         metrics.errors[l] =
           Cardinality({j \in TaskIds : /\ task[j].errs = 1
                                        /\ l = <<msgs[j].topic, ErrorKind(msgs[j])>>})
    /\ \A j \in TaskIds \ {i} : msgs[j].kind # "null" =>
         /\ task[j].calls <= 3
         /\ task[j].errs = (IF task[j].attempt = 3 THEN 1 ELSE 0)
         /\ task[j].dlqCalls = task[j].errs
         /\ task[j].pc = "failed" =>
              (Count(dlqTopic, j) = 1 <=> <<"DLQ publish failed", j>> \notin logged)

\* C14 witness: the dead-letter publish of one message failed, and another message
\* that failed permanently was published to the dead-letter topic.
C14_Witness ==
  \E i, j \in TaskIds :
    /\ <<"DLQ publish failed", i>> \in logged
    /\ task[j].pc = "failed" /\ Count(dlqTopic, j) = 1

\* The entries the loops have gone through, as <<section, key, entry>>.
LoadedSoFar ==
  {<<"normalizers", ToolKeys[k], ld.pluginMap.normalizers[k]>> :
     k \in 1..(ld.nextNorm - 1)}
  \cup {<<"upserters", EventKeys[k], ld.pluginMap.upserters[k]>> :
          k \in 1..(ld.nextUps - 1)}

EntryLoads(e) == validatePluginPath(e.path).ok /\ e.importOk

RegistryOf(sec) == IF sec = "normalizers" THEN normalizers ELSE upserters

LoadingDone ==
  /\ ld.nextNorm > Len(ld.pluginMap.normalizers)
  /\ ld.nextUps > Len(ld.pluginMap.upserters)

\* C15: of the entries the loading loops have gone through, each one whose path check
\* or import failed is absent from its registry and has exactly one warning, each
\* other one is registered under its key with its module and has no warning; nothing
\* else is registered; and a failure never stops the loops: the upserter entries are
\* gone through whatever happened to the normalizer entries.
C15_LoadToleratesEntryFailure ==
  /\ \A x \in LoadedSoFar :
       IF EntryLoads(x[3])
         THEN /\ x[2] \in DOMAIN RegistryOf(x[1])
              /\ RegistryOf(x[1])[x[2]] = Sanitize(x[3].path)
              /\ Count(ld.warned, x[2]) = 0
         ELSE /\ x[2] \notin DOMAIN RegistryOf(x[1])
              /\ Count(ld.warned, x[2]) = 1
  /\ Len(ld.warned) = Cardinality({x \in LoadedSoFar : ~EntryLoads(x[3])})
  /\ Cardinality(DOMAIN normalizers) + Cardinality(DOMAIN upserters)
       = Cardinality({x \in LoadedSoFar : EntryLoads(x[3])})
  /\ ld.nextUps > 1 => ld.nextNorm > Len(ld.pluginMap.normalizers)

\* C15 witness: three configured plugins with valid paths, the import of the first
\* one throws: loading ends with exactly two handlers and one warning.
C15_Witness ==
  /\ LoadingDone
  /\ Len(ld.pluginMap.normalizers) + Len(ld.pluginMap.upserters) = 3
  /\ Len(ld.pluginMap.normalizers) >= 1
  /\ validatePluginPath(ld.pluginMap.normalizers[1].path).ok
  /\ ~ld.pluginMap.normalizers[1].importOk
  /\ Cardinality(DOMAIN normalizers) + Cardinality(DOMAIN upserters) = 2
  /\ Len(ld.warned) = 1

\* C16: a module is imported for an entry only if its sanitized path resolves to the
\* plugins base directory or to a descendant of it, and an entry whose path resolves
\* elsewhere is never registered.
C16_OnlyPathsInsideBaseDirLoad ==
  \A x \in LoadedSoFar :
    ~IsInside(Resolve(Dirname, Sanitize(x[3].path)), Resolve(Dirname, BaseDir)) =>
      /\ <<x[1], x[2]>> \notin ld.imported
      /\ x[2] \notin DOMAIN RegistryOf(x[1])

\* The (key, value) pairs of a field map, without their order.
PairSet(m) == {m[i] : i \in 1..Len(m)}

\* C17: two field maps with the same set of (key, value) pairs, in whatever insertion
\* orders, have the same fingerprint.
C17_FingerprintIgnoresKeyOrder ==
  (fp.pc = "done" /\ PairSet(fp.m1) = PairSet(fp.m2)) => fp.out1 = fp.out2

\* C17 witness: the fingerprints of a two-field map and of the same fields inserted
\* in the opposite order were computed.
C17_Witness ==
  /\ fp.pc = "done"
  /\ Len(fp.m1) = 2
  /\ fp.m2 = <<fp.m1[2], fp.m1[1]>>
  /\ fp.out1 = fp.out2

\* C18: two field maps that differ in their keys or in the value of some key have
\* different fingerprints (SHA-256 taken as injective).
C18_FingerprintSeparatesMaps ==
  (fp.pc = "done" /\ PairSet(fp.m1) # PairSet(fp.m2)) => fp.out1 # fp.out2

\* C19: while and after the upserter is applied to the same DomainEvent as in the
\* application just before, the Sensor, Location, SensorType and SensorReading nodes,
\* their relationships and the per-location and per-type sensor counts are those the
\* first of the two applications left.
C19_SecondUpsertAddsNothing ==
  up.repeat => Observable(db) = up.before

\* C19 witness: an event was applied twice in a row to a graph in which another
\* sensor was already at the same location, and the second application completed.
C19_Witness ==
  /\ up.pc = 0 /\ up.applied = 3
  /\ up.repeat
  /\ db.coLocated # {}
  /\ db.duplicateCount[up.ev.fingerprint] >= 1
  /\ db.sensorCount[up.ev.location] = 2

\* The string fingerprint() hashes for a reading: the five fields in key order.
ReadingString(d) ==
  Key_location \o <<"=">> \o d.location.v \o <<"|">>
  \o Key_sensor \o <<"=">> \o d.sensorId.v \o <<"|">>
  \o Key_type \o <<"=">> \o Lit_SENSOR_READING \o <<"|">>
  \o Key_unit \o <<"=">> \o d.unit.v \o <<"|">>
  \o Key_value \o <<"=">> \o d.value.v

\* The sensor type each sensor id of the model stands for.
ExpectedType(id) ==
  IF id \in {Id_temp1, Id_Temp2, Id_airtemp} THEN "temperature"
  ELSE IF id = Id_humid1 THEN "humidity" ELSE "generic"

\* Handling the report produced exactly one SENSOR_READING event, with the type
\* derived from the sensor id and the fingerprint of its five fields, and pushed it
\* to the buffer for the domain topic.
OneReadingPushed ==
  /\ Len(nz.events) = 1
  /\ nz.events[1].event.event_type = "SENSOR_READING"
  /\ nz.events[1].meta.sensorType = ExpectedType(nz.raw.data.sensorId.v)
  /\ nz.events[1].event.fingerprint = Sha256Hex(ReadingString(nz.raw.data))
  /\ Len(nz.pushed) = 1
  /\ nz.pushed[1].topic = "domain"
  /\ nz.pushed[1].key = nz.events[1].event.fingerprint
  /\ nz.pushed[1].value = nz.events[1]
  /\ Len(batch) = 1 /\ batch[1].topic = "domain"

\* C20 as stated: a raw message made of tool "sensor_report", a runId and data with
\* sensorId, value, unit and location yields exactly one SENSOR_READING event with the
\* derived sensor type and the fingerprint of {type, sensor, location, value, unit},
\* pushed to the buffer for the domain topic.
C20_SensorReportYieldsOneReading ==
  (nz.pc = "done" /\ RawSensorSchemaIgnoresVersion(nz.raw)) => OneReadingPushed

\* C20 amended: the same for a raw message that also carries a schemaVersion string.
C20_VersionedSensorReportYieldsOneReading ==
  (/\ nz.pc = "done"
   /\ RawSensorSchemaIgnoresVersion(nz.raw)
   /\ IsString(nz.raw.schemaVersion)) => OneReadingPushed

\* C20 witness: the report of sensor "temp-1" in the kitchen with value 21.5 celsius
\* and schemaVersion "1.0" was handled and gave a "temperature" reading.
C20_Witness ==
  /\ nz.pc = "done"
  /\ nz.raw.tool = "sensor_report"
  /\ nz.raw.schemaVersion = Str(Ver_1_0)
  /\ nz.raw.data.sensorId = Str(Id_temp1)
  /\ nz.raw.data.location = Str(Loc_kitchen)
  /\ nz.raw.data.value = Num(Val_21_5)
  /\ Len(nz.events) = 1
  /\ nz.events[1].meta.sensorType = "temperature"
  /\ Len(batch) = 1

\* C21: at any time at most one flush (capture of the buffer and its retried
\* sendBatch) is in progress: no timer tick and no shutdown flush starts a send while
\* the send of an earlier flush is still pending or in backoff.
C21_AtMostOneFlushInProgress ==
  Cardinality({f \in FlushIds : InProgress(f)}) <= 1

\* C22: the process exits with status 0 only when every step of the shutdown sequence
\* succeeded; when the final flush, consumer.stop, consumer.disconnect,
\* producer.disconnect or driver.close failed, it exits with a non-zero status.
C22_ShutdownFailureExitsNonZero ==
  exitCode # -1 =>
    /\ exitCode = 0 <=> sd.steps = ShutdownSteps
    /\ (sd.flush # 0 /\ flushes[sd.flush].pc = "failed") => exitCode # 0

\* C23: a raw message whose normalizer returned null (its payload failed the plugin's
\* input schema) is never handled as a success: it takes the failure path, and once
\* its processing has finished it was published to the dead-letter topic.
C23_NullFromNormalizerIsDeadLettered ==
  \A i \in TaskIds : (msgs[i].topic = "raw" /\ msgs[i].kind = "normNull") =>
    /\ task[i].pc \in {"backoff", "dlq", "failed"}
    /\ task[i].pc = "failed" => task[i].dlqCalls = 1

\* The messages whose bytes JSON.parse rejects.
Unparsable(i) == msgs[i].kind = "badjson"

\* C24 as stated: a message whose bytes are not JSON is never in retry backoff and
\* handle() is called for it once only: the failure path follows the first attempt.
C24_ParseFailureIsNotRetried ==
  \A i \in TaskIds : Unparsable(i) =>
    /\ task[i].calls = 1
    /\ task[i].pc \in {"dlq", "failed"}
    /\ task[i].errs = 1 /\ task[i].dlqCalls = 1

\* C24 amended: a parse failure is retried like every other failure: the message is
\* in backoff after its first and second attempt, and the failure path (one
\* SyntaxError increment for its topic, one dead-letter publish) follows its third.
C24_ParseFailureExhaustsTheBudget ==
  /\ \A i \in TaskIds : Unparsable(i) =>
       LET t == task[i] IN
         /\ t.calls = t.attempt
         /\ t.pc \in {"backoff", "dlq", "failed"}
         /\ t.pc = "backoff" => (t.calls \in {1, 2} /\ t.errs = 0 /\ t.dlqCalls = 0)
         /\ t.pc \in {"dlq", "failed"} =>
              (t.calls = HandlerRetries + 1 /\ t.errs = 1 /\ t.dlqCalls = 1)
  /\ \A tp \in Topics :
       metrics.errors[<<tp, "SyntaxError">>] =
         Cardinality({i \in TaskIds : /\ Unparsable(i) /\ msgs[i].topic = tp
                                      /\ task[i].pc \in {"dlq", "failed"}})

\* C24 witness: a message that is not JSON was attempted three times, counted as one
\* SyntaxError and published to the dead-letter topic.
C24_Witness ==
  \E i \in TaskIds :
    /\ Unparsable(i)
    /\ task[i].pc = "failed" /\ task[i].calls = 3
    /\ metrics.errors[<<msgs[i].topic, "SyntaxError">>] = 1
    /\ Count(dlqTopic, i) = 1

\* C25: when the invocations of the example upserter for two domain events ran
\* concurrently, their statements interleaved in any way, the graph they leave is the
\* one that applying the first event and then the second, one after the other, leaves:
\* the final state does not depend on which invocation's effects completed first.
C25_ConcurrentUpsertsCommute ==
  (cu.pc[1] = Returned /\ cu.pc[2] = Returned) =>
    db = UpsertFrom(1, UpsertFrom(1, DbEmpty, cu.ev[1]), cu.ev[2])

\* The entries pushed so far: those in the buffer and those captured by a flush.
AllEntries ==
  {batch[k] : k \in 1..Len(batch)}
  \cup UNION {{flushes[f].sending[k] : k \in 1..Len(flushes[f].sending)} : f \in FlushIds}

NoFailedAttempt(i) == task[i].attempt = 0

\* C26: the first call of handle() for a message is made before the first call for
\* any message delivered after it (whenever a message has been attempted, every
\* message with a value delivered before it has been attempted too); the buffer holds
\* its entries in push order; and of two raw messages none of whose attempts failed,
\* every event of the one that arrived first was pushed, and stands in the buffer,
\* before every event of the other.
C26_DispatchStartsInArrivalOrder ==
  /\ \A j \in TaskIds : task[j].calls >= 1 =>
       \A i \in 1..(j - 1) : msgs[i].kind # "null" => task[i].calls >= 1
  /\ \A k, l \in 1..Len(batch) : k < l => batch[k].id < batch[l].id
  /\ \A x, y \in AllEntries :
       (NoFailedAttempt(x.msg) /\ NoFailedAttempt(y.msg) /\ x.msg < y.msg) => x.id < y.id
  /\ \A k, l \in 1..Len(batch) :
       (NoFailedAttempt(batch[k].msg) /\ NoFailedAttempt(batch[l].msg) /\ k < l) =>
         batch[k].msg <= batch[l].msg

\* C26 witness: two raw messages whose attempts succeeded have their events in the
\* buffer together, those of the first message before those of the second.
C26_Witness ==
  \E k, l \in 1..Len(batch) :
    /\ k < l
    /\ batch[k].msg < batch[l].msg
    /\ NoFailedAttempt(batch[k].msg) /\ NoFailedAttempt(batch[l].msg)
    /\ task[batch[k].msg].pc = "done" /\ task[batch[l].msg].pc = "done"

\* C27: the callback of every delivered message has returned, whatever the state of
\* the message's task (awaiting its upsert, in retry backoff, publishing to the
\* dead-letter topic): delivering the next message never waits for a task to finish.
C27_CallbackReturnsBeforeTheTaskEnds ==
  /\ Len(task) = Len(msgs)
  /\ \A i \in TaskIds : task[i].returned

\* C27 witness: two domain events were awaiting their upserts at the same time, and
\* the one delivered later has completed while the earlier one is still awaiting its
\* upsert or is in retry backoff.
C27_Witness ==
  \E i, j \in TaskIds :
    /\ i < j
    /\ msgs[i].kind = "upsert" /\ msgs[j].kind = "upsert"
    /\ task[i].pc \in {"upserting", "backoff"}
    /\ task[j].pc = "done"

\* The messages of the first n flushes whose sendBatch succeeded.
RECURSIVE SentMessages(_)
SentMessages(n) ==
  IF n = 0 THEN 0
  ELSE (IF flushes[n].pc = "ok" THEN Len(flushes[n].sending) ELSE 0) + SentMessages(n - 1)

\* C28: the messages-produced counter always equals the number of messages captured
\* by the flushes whose send succeeded: a flush adds the size of its captured set when
\* its send succeeds, and a flush that is pending, in backoff or failed adds nothing.
C28_ProducedCountsSuccessfulSends ==
  metrics.produced = SentMessages(Len(flushes))

\* C28 witness: one flush failed and another flush with two messages succeeded, and
\* the counter is 2.
C28_Witness ==
  \E f, g \in FlushIds :
    /\ flushes[f].pc = "failed" /\ Len(flushes[f].sending) >= 1
    /\ flushes[g].pc = "ok" /\ Len(flushes[g].sending) = 2
    /\ metrics.produced = 2

\* C29: a flush called on an empty buffer (by the timer or by the SIGINT handler)
\* makes no sendBatch call and changes neither the buffer nor the messages-produced
\* counter.
C29_EmptyFlushDoesNothing ==
  [][(Len(batch) = 0 /\ (TimerTick \/ SIGINT)) =>
       (/\ flushes' = flushes
        /\ batch' = batch
        /\ metrics'.produced = metrics.produced)]_vars

\* C29 witness: the shutdown flush found the buffer empty after an earlier flush had
\* sent a message: no second send was made and the counter still counts the first.
C29_Witness ==
  /\ sd.pc = "finalFlush" /\ sd.flush = 0
  /\ Len(batch) = 0
  /\ Len(flushes) = 1 /\ flushes[1].pc = "ok"
  /\ metrics.produced = Len(flushes[1].sending)

\* The raw messages whose normalizer returned candidates that all satisfy
\* DomainEventSchema.
AllCandidatesValid(i) ==
  /\ msgs[i].topic = "raw" /\ msgs[i].kind = "events"
  /\ \A e \in 1..Len(msgs[i].events) : msgs[i].events[e]

C31_TickGaugeReportsBufferedMessages ==
  [][(TimerTick /\ Len(batch) > 0) => metrics'.batchQueueSize = Len(batch)]_vars

\* The messages delivered on topic tp with a value.
DeliveredOn(tp) == {i \in TaskIds : msgs[i].topic = tp /\ msgs[i].kind # "null"}

\* C32: the messages-consumed counter of each topic equals the number of messages
\* delivered on that topic, however often their processing was retried.
C32_ConsumedCountsMessagesOnce ==
  \A tp \in Topics : metrics.consumed[tp] = Cardinality(DeliveredOn(tp))

\* C33: once the storage driver is closed no upserter invocation is pending (none
\* was left pending by the drain, none was started by a message dispatched or
\* re-attempted after the shutdown sequence began).
C33_NoUpsertPendingAtDriverClose ==
  ~conn.driver => \A i \in TaskIds : task[i].pc # "upserting"

\* C34: when the process has exited after running the shutdown sequence to its end,
\* the buffer is empty: every event pushed before the exit was captured by a flush.
C34_BufferEmptyAtExit ==
  (exitCode # -1 /\ sd.steps = ShutdownSteps) => Len(batch) = 0

\* C35: once the producer is disconnected no flush has a sendBatch pending or a
\* retry of it in backoff, whether the timer or the SIGINT handler started it.
C35_NoSendInProgressAtProducerDisconnect ==
  ~conn.producer => \A f \in FlushIds : ~InProgress(f)

\* C36: the entries a raw message has added to the buffer over all of its attempts
\* (those still buffered and those captured by a flush) are never more than the
\* events its normalizer returns for it.
C36_NoEventBufferedTwice ==
  \A i \in TaskIds : msgs[i].topic = "raw" =>
    Cardinality({x \in AllEntries : x.msg = i}) <= Len(msgs[i].events)

\* The terminal outcomes of message i: an attempt succeeded (the message was handled
\* or dropped silently), or the error was counted and one dead-letter publish was
\* attempted and has settled.
Succeeded(i) == task[i].pc = "done"
FailedPermanently(i) == task[i].pc = "failed" /\ task[i].errs = 1 /\ task[i].dlqCalls = 1

\* C37: while no SIGINT arrives and every backoff, upserter promise and send settles,
\* every delivered message with a value eventually succeeds or fails permanently; a
\* message that succeeded has no error counted and no dead-letter publish, and a
\* message that reached one of the two outcomes stays as it is.
C37_EveryMessageReachesOneOutcome ==
  /\ \A i \in 1..MaxMsgs :
       (i <= Len(task) /\ msgs[i].kind # "null") ~>
         (i <= Len(task) /\ (Succeeded(i) \/ FailedPermanently(i)))
  /\ [](\A i \in TaskIds :
         /\ Succeeded(i) => (task[i].errs = 0 /\ task[i].dlqCalls = 0)
         /\ task[i].errs = 1 => task[i].pc \in {"dlq", "failed"})
  /\ [][\A i \in TaskIds :
         (Succeeded(i) \/ FailedPermanently(i)) => task'[i] = task[i]]_vars

\* C37 witness: one message failed permanently after three attempts and another
\* succeeded on a retry.
C37_Witness ==
  \E i, j \in TaskIds :
    /\ FailedPermanently(i) /\ task[i].calls = 3
    /\ Succeeded(j) /\ task[j].attempt >= 1

=============================================================================
